---- MODULE Spec2Model ----
(***************************************************************************)
(* A model of src/src/devices/vdml_adi.c, the ADI (three-wire expansion)   *)
(* layer of PROS: port addressing, the validation macros, the hardware     *)
(* facade calls and the per-device operations built on them.               *)
(*                                                                         *)
(* Every public function is one action.  A function body is an operator    *)
(* that threads a call context (a record) through the statements of the    *)
(* body; the macros of the file are operators of the same kind that mark   *)
(* the context "returned" when the macro executes its return statement.    *)
(* The hardware's raw values are inputs of the environment: each read      *)
(* through vexDeviceAdiValueGet returns the value the action was given.    *)
(* An access outside analog_registry or encoder_reversed is undefined      *)
(* behaviour: it is logged, and its outcome is an input of the action      *)
(* drawn from the outcomes a flat-memory build can produce.                *)
(***************************************************************************)
EXTENDS Integers, Sequences, FiniteSets, TLC

\* ---------------------------------------------------------------- constants
PROS_ERR == 2147483647
EINVAL == 22
NUM_ADI_PORTS == 8
NUM_MAX_TWOWIRE == 4
ADI_MOTOR_MAX_SPEED == 127
ADI_MOTOR_MIN_SPEED == -128
CALIBRATE_SAMPLES == 512

\* adi_port_config_e_t
E_ADI_ANALOG_IN == 0
E_ADI_ANALOG_OUT == 1
E_ADI_DIGITAL_IN == 2
E_ADI_DIGITAL_OUT == 3
E_ADI_SMART_BUTTON == 4
E_ADI_SMART_POT == 5
E_ADI_LEGACY_BUTTON == 6
E_ADI_LEGACY_POT == 7
E_ADI_LEGACY_LINE_SENSOR == 8
E_ADI_LEGACY_LIGHT_SENSOR == 9
E_ADI_LEGACY_ACCELEROMETER == 11
E_ADI_LEGACY_SERVO == 12
E_ADI_LEGACY_PWM == 13
E_ADI_LEGACY_ENCODER == 14
E_ADI_LEGACY_ULTRASONIC == 15
E_ADI_TYPE_UNDEFINED == 255

\* pinMode modes
INPUT == 0
OUTPUT == 1
INPUT_ANALOG == 2
OUTPUT_ANALOG == 3

\* character codes
CH_a == 97
CH_h == 104
CH_A == 65
CH_H == 72

\* ------------------------------------------------------------------ bounds
\* Number of API calls in one behaviour of a specification of one device
\* family.
MaxOps == 2

\* Number of API calls in one behaviour of the specification of all
\* operations.
MaxCalls == 1

\* ------------------------------------------------------------- C arithmetic
Abs(x) == IF x < 0 THEN -x ELSE x

\* C integer division and remainder truncate toward zero (b > 0).
CDiv(a, b) == IF a >= 0 THEN a \div b ELSE -((-a) \div b)

CRem(a, b) == IF a >= 0 THEN a % b ELSE -((-a) % b)

Min(a, b) == IF a < b THEN a ELSE b

\* A uint32_t as two 16-bit halves, so that arithmetic modulo 2^32 stays
\* inside the integers the model checker can represent.
U32(v) == [hi |-> (v \div 65536) % 65536, lo |-> v % 65536]

U32Add(a, b) ==
  LET lo == a.lo + b.lo
      hi == a.hi + b.hi + (lo \div 65536)
  IN  [hi |-> hi % 65536, lo |-> lo % 65536]

\* (int32_t)(u >> n) for an unsigned u and 5 <= n <= 16; the result is below
\* 2^27 and so unchanged by the cast.
U32Shr(u, n) == u.hi * (2 ^ (16 - n)) + (u.lo \div (2 ^ n))

\* ------------------------------------------------------------------- state
VARIABLES
  adi_config,        \* the hardware's configuration of each port index
  analog_registry,   \* adi_analog_t analog_registry[NUM_ADI_PORTS]
  encoder_reversed,  \* bool encoder_reversed[NUM_MAX_TWOWIRE]
  errno,             \* the caller's errno
  last,              \* the last call: operation, arguments, result, trace
  calibrated,        \* history: the calibration the last completed
                     \* adi_analog_calibrate of each port computed (0: none)
  nops,              \* number of calls made
  tasks,             \* each task's position in the call it is making
  mutex,             \* the task that has claimed the ADI interface
  access             \* the last call that reached the SDK, and who made it

vars ==
  <<adi_config, analog_registry, encoder_reversed, errno, last, calibrated, nops,
    tasks, mutex, access>>

PortIndex == 0 .. (NUM_ADI_PORTS - 1)

TwoWireSlot == 0 .. (NUM_MAX_TWOWIRE - 1)

\* The context a call starts in.
Ctx ==
  [cfg |-> adi_config, reg |-> analog_registry, rev |-> encoder_reversed,
   errno |-> errno, errset |-> FALSE, hw |-> <<>>, aux |-> <<>>,
   rtn |-> 0, returned |-> FALSE, port |-> 0]

\* errno = EINVAL;
SetErrno(c) == [c EXCEPT !.errno = EINVAL, !.errset = TRUE]

\* return v; inside a macro: the enclosing function returns.
MacroReturn(c, v) == [c EXCEPT !.rtn = v, !.returned = TRUE]

\* ------------------------------------------------------------ port addressing
\* transform_adi_port with the upper-case branch subtracting 'a', as the
\* lower-case branch does.
transform_adi_port_upper_as_lower(port) ==
  IF port >= CH_a /\ port <= CH_h THEN port - CH_a
  ELSE IF port >= CH_A /\ port <= CH_H THEN port - CH_a
  ELSE port - 1

\* The assignments of transform_adi_port: a letter is moved to its position
\* in the alphabet, anything else is decremented.
transform_adi_port(port) ==
  IF port >= CH_a /\ port <= CH_h THEN port - CH_a
  ELSE IF port >= CH_A /\ port <= CH_H THEN port - CH_A
  ELSE port - 1

\* The test of transform_adi_port that ends the function with PROS_ERR.
port_out_of_range(p) == p > 7 \/ p < 0

\* ------------------------------------------------------------ hardware facade
\* The trace of the calls that reach the VEX SDK during one API call, in
\* order: each entry is an SDK function, the port index it is given, the
\* value passed or returned, and the number n of consecutive identical calls.
HwCall(hw, fn, p, v) ==
  IF hw # <<>> /\ hw[Len(hw)].fn = fn /\ hw[Len(hw)].port = p /\ hw[Len(hw)].val = v
  THEN [hw EXCEPT ![Len(hw)].n = @ + 1]
  ELSE Append(hw, [fn |-> fn, port |-> p, val |-> v, n |-> 1])

\* adi_port_config_set handing the SDK the port number instead of its index.
adi_port_config_set_one_based(c, port, type) ==
  LET p == transform_adi_port(port) IN
  IF port_out_of_range(p) THEN [SetErrno(c) EXCEPT !.rtn = PROS_ERR]
  ELSE [c EXCEPT !.cfg[(p + 1) % NUM_ADI_PORTS] = type,
                 !.hw = HwCall(@, "PortConfigSet", (p + 1) % NUM_ADI_PORTS, type),
                 !.rtn = 1]

\* claim_port(INTERNAL_ADI_PORT, E_DEVICE_ADI) ... return_port(...): the ADI
\* mutex is taken before the SDK call and given back after it, inside one
\* call; with a single caller the claim always succeeds.
adi_port_config_set(c, port, type) ==
  LET p == transform_adi_port(port) IN
  IF port_out_of_range(p) THEN [SetErrno(c) EXCEPT !.rtn = PROS_ERR]
  ELSE [c EXCEPT !.cfg[p] = type,
                 !.hw = HwCall(@, "PortConfigSet", p, type),
                 !.rtn = 1]

adi_port_config_get(c, port) ==
  LET p == transform_adi_port(port) IN
  IF port_out_of_range(p) THEN [SetErrno(c) EXCEPT !.rtn = PROS_ERR]
  ELSE [c EXCEPT !.hw = HwCall(@, "PortConfigGet", p, c.cfg[p]),
                 !.rtn = c.cfg[p]]

adi_value_set(c, port, value) ==
  LET p == transform_adi_port(port) IN
  IF port_out_of_range(p) THEN [SetErrno(c) EXCEPT !.rtn = PROS_ERR]
  ELSE [c EXCEPT !.hw = HwCall(@, "ValueSet", p, value),
                 !.rtn = 1]

\* raw is what vexDeviceAdiValueGet returns for the port at this moment.
adi_value_get(c, port, raw) ==
  LET p == transform_adi_port(port) IN
  IF port_out_of_range(p) THEN [SetErrno(c) EXCEPT !.rtn = PROS_ERR]
  ELSE [c EXCEPT !.hw = HwCall(@, "ValueGet", p, raw),
                 !.rtn = raw]

\* ------------------------------------------------------------------ validators
\* Each validator reads the configuration through adi_port_config_get and
\* returns PROS_ERR from the enclosing function when it is not acceptable.
\* validate_type with the comparison dropped.
validate_type_unchecked(c, port, type) == adi_port_config_get(c, port)

validate_type(c, port, type) ==
  LET g == adi_port_config_get(c, port)
      config == g.rtn
  IN  IF config # type THEN MacroReturn(g, PROS_ERR) ELSE g

validate_analog(c, port) ==
  LET g == adi_port_config_get(c, port)
      config == g.rtn
  IN  IF config # E_ADI_ANALOG_IN /\ config # E_ADI_LEGACY_POT
         /\ config # E_ADI_LEGACY_LINE_SENSOR /\ config # E_ADI_LEGACY_LIGHT_SENSOR
         /\ config # E_ADI_LEGACY_ACCELEROMETER /\ config # E_ADI_SMART_POT
      THEN MacroReturn(SetErrno(g), PROS_ERR)
      ELSE g

validate_digital_in(c, port) ==
  LET g == adi_port_config_get(c, port)
      config == g.rtn
  IN  IF config # E_ADI_DIGITAL_IN /\ config # E_ADI_LEGACY_BUTTON
         /\ config # E_ADI_SMART_BUTTON
      THEN MacroReturn(SetErrno(g), PROS_ERR)
      ELSE g

validate_motor(c, port) ==
  LET g == adi_port_config_get(c, port)
      config == g.rtn
  IN  IF config # E_ADI_LEGACY_PWM /\ config # E_ADI_LEGACY_SERVO
      THEN MacroReturn(SetErrno(g), PROS_ERR)
      ELSE g

\* validate_twowire with the parity test inverted: it rejects an odd lower
\* identifier instead of an even one.
validate_twowire_odd_rejected(c, port_top, port_bottom) ==
  IF Abs(port_top - port_bottom) > 1 THEN MacroReturn(SetErrno(c), PROS_ERR)
  ELSE IF port_top = port_bottom THEN MacroReturn(c, PROS_ERR)
  ELSE LET port == IF port_top < port_bottom THEN port_top ELSE port_bottom IN
       IF CRem(port, 2) # 0 THEN MacroReturn([c EXCEPT !.port = port], PROS_ERR)
       ELSE [c EXCEPT !.port = port]

\* The macro works on the raw identifiers it is given and leaves the lower
\* one in the local variable port.
validate_twowire(c, port_top, port_bottom) ==
  IF Abs(port_top - port_bottom) > 1 THEN MacroReturn(SetErrno(c), PROS_ERR)
  ELSE IF port_top = port_bottom THEN MacroReturn(c, PROS_ERR)
  ELSE LET port == IF port_top < port_bottom THEN port_top ELSE port_bottom IN
       IF CRem(port, 2) = 0 THEN MacroReturn([c EXCEPT !.port = port], PROS_ERR)
       ELSE [c EXCEPT !.port = port]

\* ------------------------------------------------------------ auxiliary state
\* One access of the auxiliary arrays: the array, the index used, whether it
\* is a store, and the value stored (0 for a load).
AuxAccess(arr, idx, wr, v) == [arr |-> arr, idx |-> idx, wr |-> wr, val |-> v]

\* analog_registry[k].calib = v.  Outside the array the store is undefined
\* behaviour: it lands on other memory, which is either none of the modelled
\* state (ub = -1) or the encoder_reversed flag ub.
analog_calib_store(c, k, v, ub) ==
  LET a == [c EXCEPT !.aux = Append(@, AuxAccess("analog_registry", k, TRUE, v))] IN
  IF k \in PortIndex THEN [a EXCEPT !.reg[k].calib = v]
  ELSE IF ub \in TwoWireSlot THEN [a EXCEPT !.rev[ub] = (v # 0)]
  ELSE a

\* analog_registry[k].calib as a value.  Outside the array the load is
\* undefined behaviour and yields ubval, whatever the memory there holds.
analog_calib_load(c, k, ubval) ==
  IF k \in PortIndex THEN c.reg[k].calib ELSE ubval

\* encoder_reversed[slot] = v, with the same treatment of a store outside the
\* array: none of the modelled state, or the calibration of port ub.
encoder_reversed_store(c, slot, v, ub) ==
  LET a == [c EXCEPT !.aux = Append(@, AuxAccess("encoder_reversed", slot, TRUE, IF v THEN 1 ELSE 0))] IN
  IF slot \in TwoWireSlot THEN [a EXCEPT !.rev[slot] = v]
  ELSE IF ub \in PortIndex THEN [a EXCEPT !.reg[ub].calib = IF v THEN 1 ELSE 0]
  ELSE a

encoder_reversed_load(c, slot, ubval) ==
  IF slot \in TwoWireSlot THEN c.rev[slot] ELSE ubval

LogLoad(c, arr, idx) == [c EXCEPT !.aux = Append(@, AuxAccess(arr, idx, FALSE, 0))]

\* -------------------------------------------------------------- analog family
\* One iteration of the sampling loop of adi_analog_calibrate: the first
\* sample reads the raw value first, every later one the raw value rest.
\* A loop state is the context with the accumulated uint32_t total.
calibrate_sample(l, port, i, first, rest) ==
  LET g == adi_value_get(l.ctx, port, IF i = 0 THEN first ELSE rest)
  IN  [ctx |-> g, total |-> U32Add(l.total, U32(g.rtn))]

\* The iterations i, i+1, ..., i+n-1 of the loop, in that order, from loop
\* state l (the range is halved so that the evaluation stays shallow).
RECURSIVE calibrate_loop(_, _, _, _, _, _)
calibrate_loop(l, port, i, n, first, rest) ==
  IF n = 0 THEN l
  ELSE IF n = 1 THEN calibrate_sample(l, port, i, first, rest)
  ELSE LET h == n \div 2
           m == calibrate_loop(l, port, i, h, first, rest)
       IN  IF m.total.hi < 65536 /\ m.total.lo < 65536   \* total is a uint32_t
           THEN calibrate_loop(m, port, i + h, n - h, first, rest)
           ELSE m

\* The contexts the call can end in: one, unless the store of the calibration
\* falls outside analog_registry, and then one for each of the outcomes ubs.
adi_analog_calibrate(c, port, first, rest, ubs) ==
  LET v == validate_analog(c, port) IN
  IF v.returned THEN {v}
  ELSE LET l == calibrate_loop([ctx |-> v, total |-> U32(0)], port, 0,
                                CALIBRATE_SAMPLES, first, rest)
           calib == U32Shr(U32Add(l.total, U32(16)), 5)
           rtn == U32Shr(U32Add(l.total, U32(256)), 9)
       IN  { [analog_calib_store(l.ctx, port - 1, calib, ub) EXCEPT !.rtn = rtn] :
               ub \in IF (port - 1) \in PortIndex THEN {-1} ELSE ubs }

adi_analog_read(c, port, raw) ==
  LET v == validate_analog(c, port) IN
  IF v.returned THEN v ELSE adi_value_get(v, port, raw)

\* calib >> 4 on the signed calib is an arithmetic shift.
adi_analog_read_calibrated(c, port, raw, ubval) ==
  LET v == validate_analog(c, port) IN
  IF v.returned THEN v
  ELSE LET g == LogLoad(adi_value_get(v, port, raw), "analog_registry", port - 1)
       IN  [g EXCEPT !.rtn = g.rtn - (analog_calib_load(g, port - 1, ubval) \div 16)]

adi_analog_read_calibrated_HR(c, port, raw, ubval) ==
  LET v == validate_analog(c, port) IN
  IF v.returned THEN v
  ELSE LET g == LogLoad(adi_value_get(v, port, raw), "analog_registry", port - 1)
       IN  [g EXCEPT !.rtn = (g.rtn * 16) - analog_calib_load(g, port - 1, ubval)]

\* ------------------------------------------------------------- digital family
adi_digital_read(c, port, raw) ==
  LET v == validate_digital_in(c, port) IN
  IF v.returned THEN v ELSE adi_value_get(v, port, raw)

adi_digital_write(c, port, value) ==
  LET v == validate_type(c, port, E_ADI_DIGITAL_OUT) IN
  IF v.returned THEN v ELSE adi_value_set(v, port, IF value THEN 1 ELSE 0)

\* adi_pin_mode with the OUTPUT case configuring the port as a digital input.
adi_pin_mode_output_as_input(c, port, mode) ==
  IF mode = INPUT \/ mode = OUTPUT
    THEN [adi_port_config_set(c, port, E_ADI_DIGITAL_IN) EXCEPT !.rtn = 1]
  ELSE IF mode = INPUT_ANALOG
    THEN [adi_port_config_set(c, port, E_ADI_ANALOG_IN) EXCEPT !.rtn = 1]
  ELSE IF mode = OUTPUT_ANALOG
    THEN [adi_port_config_set(c, port, E_ADI_ANALOG_OUT) EXCEPT !.rtn = 1]
  ELSE [SetErrno(c) EXCEPT !.rtn = PROS_ERR]

\* The results of the adi_port_config_set calls are discarded.
adi_pin_mode(c, port, mode) ==
  IF mode = INPUT
    THEN [adi_port_config_set(c, port, E_ADI_DIGITAL_IN) EXCEPT !.rtn = 1]
  ELSE IF mode = OUTPUT
    THEN [adi_port_config_set(c, port, E_ADI_DIGITAL_OUT) EXCEPT !.rtn = 1]
  ELSE IF mode = INPUT_ANALOG
    THEN [adi_port_config_set(c, port, E_ADI_ANALOG_IN) EXCEPT !.rtn = 1]
  ELSE IF mode = OUTPUT_ANALOG
    THEN [adi_port_config_set(c, port, E_ADI_ANALOG_OUT) EXCEPT !.rtn = 1]
  ELSE [SetErrno(c) EXCEPT !.rtn = PROS_ERR]

\* --------------------------------------------------------------- legacy motor
\* adi_motor_set without the lower clamp.
adi_motor_set_no_lower_clamp(c, port, speed) ==
  LET v == validate_motor(c, port) IN
  IF v.returned THEN v
  ELSE LET clamped == IF speed > ADI_MOTOR_MAX_SPEED THEN ADI_MOTOR_MAX_SPEED
                      ELSE speed
       IN  adi_value_set(v, port, clamped)

adi_motor_set(c, port, speed) ==
  LET v == validate_motor(c, port) IN
  IF v.returned THEN v
  ELSE LET clamped == IF speed > ADI_MOTOR_MAX_SPEED THEN ADI_MOTOR_MAX_SPEED
                      ELSE IF speed < ADI_MOTOR_MIN_SPEED THEN ADI_MOTOR_MIN_SPEED
                      ELSE speed
       IN  adi_value_set(v, port, clamped)

adi_motor_get(c, port, raw) ==
  LET v == validate_motor(c, port) IN
  IF v.returned THEN v
  ELSE LET g == adi_value_get(v, port, raw)
       IN  [g EXCEPT !.rtn = g.rtn - ADI_MOTOR_MAX_SPEED]

adi_motor_stop(c, port) ==
  LET v == validate_motor(c, port) IN
  IF v.returned THEN v ELSE adi_value_set(v, port, 0)

\* -------------------------------------------------------------------- encoder
adi_encoder_init(c, port_top, port_bottom, reverse, ub) ==
  LET v == validate_twowire(c, port_top, port_bottom) IN
  IF v.returned THEN v
  ELSE adi_port_config_set(
         encoder_reversed_store(v, CDiv(v.port - 1, 2), reverse, ub),
         v.port, E_ADI_LEGACY_ENCODER)

adi_encoder_get(c, enc, raw, ubval) ==
  LET v == validate_type(c, enc, E_ADI_LEGACY_ENCODER) IN
  IF v.returned THEN v
  ELSE LET slot == CDiv(enc - 1, 2)
           l == LogLoad(v, "encoder_reversed", slot)
           g == adi_value_get(l, enc, raw)
       IN  IF encoder_reversed_load(l, slot, ubval)
           THEN [g EXCEPT !.rtn = -g.rtn]
           ELSE g

adi_encoder_reset(c, enc) ==
  LET v == validate_type(c, enc, E_ADI_LEGACY_ENCODER) IN
  IF v.returned THEN v ELSE adi_value_set(v, enc, 0)

\* adi_encoder_shutdown writing the encoder type back instead of
\* E_ADI_TYPE_UNDEFINED.
adi_encoder_shutdown_keeps_type(c, enc) ==
  LET v == validate_type(c, enc, E_ADI_LEGACY_ENCODER) IN
  IF v.returned THEN v ELSE adi_port_config_set(v, enc, E_ADI_LEGACY_ENCODER)

adi_encoder_shutdown(c, enc) ==
  LET v == validate_type(c, enc, E_ADI_LEGACY_ENCODER) IN
  IF v.returned THEN v ELSE adi_port_config_set(v, enc, E_ADI_TYPE_UNDEFINED)

\* ----------------------------------------------------------------- ultrasonic
\* adi_ultrasonic_init without the test that the echo port is the lower one.
adi_ultrasonic_init_any_order(c, port_echo, port_ping) ==
  LET v == validate_twowire(c, port_echo, port_ping) IN
  IF v.returned THEN v
  ELSE adi_port_config_set(v, port_echo, E_ADI_LEGACY_ULTRASONIC)

adi_ultrasonic_init(c, port_echo, port_ping) ==
  LET v == validate_twowire(c, port_echo, port_ping) IN
  IF v.returned THEN v
  ELSE IF v.port # port_echo THEN [v EXCEPT !.rtn = PROS_ERR]
  ELSE adi_port_config_set(v, port_echo, E_ADI_LEGACY_ULTRASONIC)

adi_ultrasonic_get(c, ult, raw) ==
  LET v == validate_type(c, ult, E_ADI_LEGACY_ULTRASONIC) IN
  IF v.returned THEN v ELSE adi_value_get(v, ult, raw)

adi_ultrasonic_shutdown(c, ult) ==
  LET v == validate_type(c, ult, E_ADI_LEGACY_ULTRASONIC) IN
  IF v.returned THEN v ELSE adi_port_config_set(v, ult, E_ADI_TYPE_UNDEFINED)

\* ----------------------------------------------------------------------- tasks
\* The tasks that call the API.  A call is followed statement by statement:
\* a task is idle, at the entry of a facade function ("facade"), inside it
\* with the interface claimed and the SDK call ahead ("sdk"), suspended in
\* task_delay ("delay"), or back from its call ("done").
Tasks == {"t1", "t2"}

NoTask == "none"

\* claim_port(INTERNAL_ADI_PORT, E_DEVICE_ADI): the task takes the mutex of
\* the ADI interface; it waits while another task has it.
claim_port(m, t) == [ready |-> m = NoTask, owner |-> t]

\* return_port(INTERNAL_ADI_PORT, rtn): the task gives the mutex back and the
\* facade function returns rtn.
return_port(m, t) == IF m = t THEN NoTask ELSE m

\* The facade functions with adi_value_set making its SDK call without
\* claim_port.
facade_claim_value_set_unclaimed(fn, m, t) ==
  IF fn = "ValueSet" THEN [ready |-> TRUE, owner |-> m] ELSE claim_port(m, t)

\* Each of the four facade functions claims the interface after it has
\* translated the port and before its SDK call,
facade_claim(fn, m, t) == claim_port(m, t)

\* The facade functions with adi_value_get ending in a plain return.
facade_return_value_get_keeps_claim(fn, m, t) ==
  IF fn = "ValueGet" THEN m ELSE return_port(m, t)

\* and ends in return_port.
facade_return(fn, m, t) == return_port(m, t)

IdleTask ==
  [op |-> "none", port |-> 0, arg |-> 0, pc |-> "idle", phase |-> "none",
   fn |-> "none", fval |-> 0, i |-> 0, total |-> U32(0), rtn |-> 0,
   reads |-> 0, stores |-> 0, claims |-> 0, calls |-> 0]

\* The task calls a facade function: phase is the place of the call in the
\* function being followed (its validation macro, its sampling loop, its
\* body), fn the SDK function behind the facade function, val the value or
\* type passed.
FacadeCall(k, phase, fn, val) ==
  [k EXCEPT !.pc = "facade", !.phase = phase, !.fn = fn, !.fval = val]

TaskReturn(k, v) == [k EXCEPT !.pc = "done", !.rtn = v]

\* The test of the validation macro of operation op on the configuration
\* config that its adi_port_config_get returned.
validate_result(op, config) ==
  LET c == [Ctx EXCEPT !.cfg = [p \in PortIndex |-> config]] IN
  IF op = "adi_analog_calibrate" THEN validate_analog(c, 1)
  ELSE IF op = "adi_motor_set" THEN validate_motor(c, 1)
  ELSE IF op = "adi_digital_write" THEN validate_type(c, 1, E_ADI_DIGITAL_OUT)
  ELSE validate_type(c, 1, E_ADI_LEGACY_ENCODER)

\* The first statement of the function the task calls.
task_begin(k) ==
  IF k.op = "adi_port_config_set"
  THEN FacadeCall(k, "body", "PortConfigSet", k.arg)
  ELSE FacadeCall(k, "validate", "PortConfigGet", 0)

\* The statements of the function that follow the return of a facade call
\* with result res, up to the next facade call, task_delay or return.
task_resume(k, res) ==
  IF k.phase = "validate" THEN
    IF validate_result(k.op, res).returned THEN TaskReturn(k, PROS_ERR)
    ELSE IF k.op = "adi_digital_write"
      THEN FacadeCall(k, "body", "ValueSet", k.arg)
    ELSE IF k.op = "adi_motor_set"
      THEN FacadeCall(k, "body", "ValueSet",
                      IF k.arg > ADI_MOTOR_MAX_SPEED THEN ADI_MOTOR_MAX_SPEED
                      ELSE IF k.arg < ADI_MOTOR_MIN_SPEED THEN ADI_MOTOR_MIN_SPEED
                      ELSE k.arg)
    ELSE IF k.op = "adi_encoder_reset"
      THEN FacadeCall(k, "body", "ValueSet", 0)
    ELSE IF k.op = "adi_encoder_shutdown"
      THEN FacadeCall(k, "body", "PortConfigSet", E_ADI_TYPE_UNDEFINED)
    ELSE FacadeCall([k EXCEPT !.i = 0, !.total = U32(0)], "sample", "ValueGet", 0)
  ELSE IF k.phase = "sample" THEN
    [k EXCEPT !.total = U32Add(@, U32(res)), !.pc = "delay"]
  ELSE TaskReturn(k, res)

\* errno after those statements.
resume_errno(k, res) ==
  IF k.phase = "validate" /\ validate_result(k.op, res).errset THEN EINVAL ELSE errno

\* The calls the tasks make: every task the configuration call and the
\* validated writes on port 1 and on 9 outside the range, the first task also
\* a calibration of port 1, by number or by letter.
TaskCalls(t) ==
  {<<"adi_port_config_set", 1, E_ADI_DIGITAL_IN>>,
   <<"adi_port_config_set", 1, E_ADI_ANALOG_IN>>,
   <<"adi_port_config_set", 9, E_ADI_DIGITAL_IN>>,
   <<"adi_digital_write", 1, 1>>,
   <<"adi_motor_set", 1, 200>>,
   <<"adi_encoder_reset", 1, 0>>,
   <<"adi_encoder_shutdown", 1, 0>>,
   <<"adi_encoder_shutdown", 9, 0>>}
  \cup IF t = "t1"
       THEN {<<"adi_analog_calibrate", 1, 0>>, <<"adi_analog_calibrate", CH_a, 0>>,
             <<"adi_analog_calibrate", 9, 0>>}
       ELSE {}

\* The raw value the hardware returns while the tasks run.
TaskRaw == {100}

\* The task calls a function of the API.
T_call(t, call) ==
  /\ tasks[t].pc = "idle"
  /\ tasks' = [tasks EXCEPT ![t] =
                 task_begin([@ EXCEPT !.op = call[1], !.port = call[2], !.arg = call[3]])]
  /\ UNCHANGED <<adi_config, analog_registry, encoder_reversed, errno, last,
                 calibrated, nops, mutex, access>>

\* transform_adi_port finds the port out of range: the facade function
\* returns PROS_ERR with errno set, before claim_port.
T_reject(t) ==
  LET k == tasks[t] IN
  /\ k.pc = "facade"
  /\ port_out_of_range(transform_adi_port(k.port))
  /\ tasks' = [tasks EXCEPT ![t] = task_resume(k, PROS_ERR)]
  /\ errno' = EINVAL
  /\ UNCHANGED <<adi_config, analog_registry, encoder_reversed, last, calibrated,
                 nops, mutex, access>>

\* claim_port.
T_claim(t) ==
  LET k == tasks[t]
      cl == facade_claim(k.fn, mutex, t)
  IN  /\ k.pc = "facade"
      /\ ~port_out_of_range(transform_adi_port(k.port))
      /\ cl.ready
      /\ mutex' = cl.owner
      /\ tasks' = [tasks EXCEPT ![t] = [k EXCEPT !.pc = "sdk", !.claims = @ + 1]]
      /\ UNCHANGED <<adi_config, analog_registry, encoder_reversed, errno, last,
                     calibrated, nops, access>>

\* The SDK call of the facade function, its return_port, and the caller's
\* statements up to its next facade call.
T_transact(t, raw) ==
  LET k == tasks[t]
      p == transform_adi_port(k.port)
      res == IF k.fn = "PortConfigGet" THEN adi_config[p]
             ELSE IF k.fn = "ValueGet" THEN raw
             ELSE 1
      k2 == [k EXCEPT !.calls = @ + 1,
                      !.reads = IF k.fn = "ValueGet" THEN @ + 1 ELSE @]
  IN  /\ k.pc = "sdk"
      /\ adi_config' = IF k.fn = "PortConfigSet"
                       THEN [adi_config EXCEPT ![p] = k.fval]
                       ELSE adi_config
      /\ access' = [task |-> t, op |-> k.op, fn |-> k.fn, port |-> p,
                    cfg |-> adi_config[p], owner |-> mutex]
      /\ mutex' = facade_return(k.fn, mutex, t)
      /\ tasks' = [tasks EXCEPT ![t] = task_resume(k2, res)]
      /\ errno' = resume_errno(k2, res)
      /\ UNCHANGED <<analog_registry, encoder_reversed, last, calibrated, nops>>

\* The loop of adi_analog_calibrate ending one sample early.
T_delay_one_sample_short(t, ub) ==
  LET k == tasks[t] IN
  /\ k.pc = "delay"
  /\ IF k.i + 2 < CALIBRATE_SAMPLES
     THEN /\ ub = -1
          /\ tasks' = [tasks EXCEPT ![t] =
                         FacadeCall([k EXCEPT !.i = @ + 1], "sample", "ValueGet", 0)]
          /\ UNCHANGED <<analog_registry, encoder_reversed>>
     ELSE LET calib == U32Shr(U32Add(k.total, U32(16)), 5)
              rtn == U32Shr(U32Add(k.total, U32(256)), 9)
              r == analog_calib_store(Ctx, k.port - 1, calib, ub)
          IN  /\ ((k.port - 1) \in PortIndex) => ub = -1
              /\ analog_registry' = r.reg
              /\ encoder_reversed' = r.rev
              /\ tasks' = [tasks EXCEPT ![t] =
                             TaskReturn([k EXCEPT !.i = @ + 1, !.stores = @ + 1], rtn)]
  /\ UNCHANGED <<adi_config, errno, last, calibrated, nops, mutex, access>>

\* task_delay(1) ends: the loop of adi_analog_calibrate takes its next
\* sample, or after the last one the calibration is stored and the function
\* returns.
T_delay(t, ub) ==
  LET k == tasks[t] IN
  /\ k.pc = "delay"
  /\ IF k.i + 1 < CALIBRATE_SAMPLES
     THEN /\ ub = -1
          /\ tasks' = [tasks EXCEPT ![t] =
                         FacadeCall([k EXCEPT !.i = @ + 1], "sample", "ValueGet", 0)]
          /\ UNCHANGED <<analog_registry, encoder_reversed>>
     ELSE LET calib == U32Shr(U32Add(k.total, U32(16)), 5)
              rtn == U32Shr(U32Add(k.total, U32(256)), 9)
              r == analog_calib_store(Ctx, k.port - 1, calib, ub)
          IN  /\ ((k.port - 1) \in PortIndex) => ub = -1
              /\ analog_registry' = r.reg
              /\ encoder_reversed' = r.rev
              /\ tasks' = [tasks EXCEPT ![t] =
                             TaskReturn([k EXCEPT !.i = @ + 1, !.stores = @ + 1], rtn)]
  /\ UNCHANGED <<adi_config, errno, last, calibrated, nops, mutex, access>>

\* --------------------------------------------------------------------- inputs
\* Port identifiers given to the operations: the numbers 1 and 2, the letters
\* 'a' and 'B' for the same two ports, and 0 and 9 on either side of the range.
PortIds == {0, 1, 2, 9, CH_a, CH_A + 1}

\* Every identifier around the three accepted ranges, for the addressing
\* operations.
AllPortIds == (-1 .. 10) \cup ((CH_A - 2) .. (CH_H + 2)) \cup ((CH_a - 2) .. (CH_h + 2))

CfgTypes ==
  {E_ADI_TYPE_UNDEFINED, E_ADI_ANALOG_IN, E_ADI_DIGITAL_IN, E_ADI_DIGITAL_OUT,
   E_ADI_LEGACY_PWM, E_ADI_LEGACY_ENCODER, E_ADI_LEGACY_ULTRASONIC}

\* The types the configuration calls of each family's specification set.
AddrTypes == {E_ADI_TYPE_UNDEFINED, E_ADI_ANALOG_IN, E_ADI_LEGACY_ENCODER}

AnalogTypes == {E_ADI_LEGACY_POT, E_ADI_DIGITAL_OUT}

MotorTypes == {E_ADI_LEGACY_PWM, E_ADI_DIGITAL_OUT, E_ADI_DIGITAL_IN}

TwoWireTypes == {E_ADI_LEGACY_ENCODER, E_ADI_LEGACY_ULTRASONIC, E_ADI_TYPE_UNDEFINED}

\* Handles given to the encoder and ultrasonic operations: the port
\* identifiers, and 3 for the pair (3, 4).
HandleIds == PortIds \cup {3}

Modes == {INPUT, OUTPUT, INPUT_ANALOG, OUTPUT_ANALOG, OUTPUT_ANALOG + 1}

\* Raw values the hardware returns: the 12-bit range of the analog converter
\* with its two ends, tick counts of either sign for the encoder and the
\* ultrasonic sensor, and stored motor values.
AnalogRaw == {0, 100, 4095}

CountRaw == {-40, 0, 360}

MotorRaw == {0, 127, 255}

\* Sample streams of a calibration, <<first, rest>>: the constant ones and one
\* that moves after the first sample.
Streams == {<<v, v>> : v \in AnalogRaw} \cup {<<0, 100>>}

\* The ports calibrated: a number, a letter, and 9 outside the range.
CalibPorts == {1, 2, CH_a, 9}

Speeds == {-200, -129, -128, 0, 127, 128, 200}

TwoWirePairs ==
  {<<1, 2>>, <<2, 1>>, <<2, 3>>, <<1, 3>>, <<2, 2>>, <<1, 1>>,
   <<3, 4>>, <<7, 8>>, <<8, 9>>, <<9, 10>>, <<0, 1>>, <<-1, 0>>,
   <<CH_a, CH_a + 1>>, <<CH_a + 1, CH_a>>, <<CH_A + 1, CH_A + 2>>,
   <<CH_h, CH_h + 1>>}

\* What a store outside an array can land on (nothing of the model, a reversal
\* flag, the calibration of one of the ports the calls address), and what a
\* load outside an array can find.
StoreVictimsOfCalib == {-1} \cup TwoWireSlot

StoreVictimsOfReversed == {-1, 0, 1}

LoadedCalib == {0, 1600}

\* S when the choice matters to the call, else the single default d.
Choice(S, matters, d) == IF matters THEN S ELSE {d}

BoolInt(b) == IF b THEN 1 ELSE 0

\* ----------------------------------------------------------------- the actions
\* The call op(args) ends in context r: the state takes r's memory and
\* hardware configuration, and last records the call with the state before it.
Call(op, args, r) ==
  /\ adi_config' = r.cfg
  /\ analog_registry' = r.reg
  /\ encoder_reversed' = r.rev
  /\ errno' = r.errno
  /\ last' = [op |-> op, args |-> args, rtn |-> r.rtn, hw |-> r.hw, aux |-> r.aux,
              errset |-> r.errset,
              pre |-> [cfg |-> adi_config, reg |-> analog_registry,
                       rev |-> encoder_reversed]]
  /\ calibrated' =
       IF op = "adi_analog_calibrate" /\ r.aux # <<>>
       THEN [calibrated EXCEPT ![transform_adi_port(args[1])] = r.aux[Len(r.aux)].val]
       ELSE calibrated
  /\ nops' = nops + 1
  /\ UNCHANGED <<tasks, mutex, access>>

do_port_config_set(port, type) ==
  Call("adi_port_config_set", <<port, type>>, adi_port_config_set(Ctx, port, type))

do_port_config_get(port) ==
  Call("adi_port_config_get", <<port>>, adi_port_config_get(Ctx, port))

do_analog_calibrate(port) ==
  \E st \in Choice(Streams, ~validate_analog(Ctx, port).returned, <<0, 0>>) :
    \E r \in adi_analog_calibrate(Ctx, port, st[1], st[2], StoreVictimsOfCalib) :
      Call("adi_analog_calibrate", <<port>>, r)

do_analog_read(port) ==
  \E raw \in Choice(AnalogRaw, ~validate_analog(Ctx, port).returned, 0) :
    Call("adi_analog_read", <<port>>, adi_analog_read(Ctx, port, raw))

do_analog_read_calibrated(port) ==
  LET ok == ~validate_analog(Ctx, port).returned IN
  \E raw \in Choice(AnalogRaw, ok, 0) :
    \E ubval \in Choice(LoadedCalib, ok /\ (port - 1) \notin PortIndex, 0) :
      Call("adi_analog_read_calibrated", <<port>>,
           adi_analog_read_calibrated(Ctx, port, raw, ubval))

do_analog_read_calibrated_HR(port) ==
  LET ok == ~validate_analog(Ctx, port).returned IN
  \E raw \in Choice(AnalogRaw, ok, 0) :
    \E ubval \in Choice(LoadedCalib, ok /\ (port - 1) \notin PortIndex, 0) :
      Call("adi_analog_read_calibrated_HR", <<port>>,
           adi_analog_read_calibrated_HR(Ctx, port, raw, ubval))

do_digital_read(port) ==
  \E raw \in Choice({0, 1}, ~validate_digital_in(Ctx, port).returned, 0) :
    Call("adi_digital_read", <<port>>, adi_digital_read(Ctx, port, raw))

do_digital_write(port, value) ==
  Call("adi_digital_write", <<port, BoolInt(value)>>,
       adi_digital_write(Ctx, port, value))

do_pin_mode(port, mode) ==
  Call("adi_pin_mode", <<port, mode>>, adi_pin_mode(Ctx, port, mode))

do_motor_set(port, speed) ==
  Call("adi_motor_set", <<port, speed>>, adi_motor_set(Ctx, port, speed))

do_motor_get(port) ==
  \E raw \in Choice(MotorRaw, ~validate_motor(Ctx, port).returned, 0) :
    Call("adi_motor_get", <<port>>, adi_motor_get(Ctx, port, raw))

do_motor_stop(port) ==
  Call("adi_motor_stop", <<port>>, adi_motor_stop(Ctx, port))

do_encoder_init(port_top, port_bottom, reverse) ==
  LET v == validate_twowire(Ctx, port_top, port_bottom)
      oob == ~v.returned /\ CDiv(v.port - 1, 2) \notin TwoWireSlot
  IN  \E ub \in Choice(StoreVictimsOfReversed, oob, -1) :
        Call("adi_encoder_init", <<port_top, port_bottom, BoolInt(reverse)>>,
             adi_encoder_init(Ctx, port_top, port_bottom, reverse, ub))

do_encoder_get(enc) ==
  LET ok == ~validate_type(Ctx, enc, E_ADI_LEGACY_ENCODER).returned IN
  \E raw \in Choice(CountRaw, ok, 0) :
    \E ubval \in Choice(BOOLEAN, ok /\ CDiv(enc - 1, 2) \notin TwoWireSlot, FALSE) :
      Call("adi_encoder_get", <<enc>>, adi_encoder_get(Ctx, enc, raw, ubval))

do_encoder_reset(enc) ==
  Call("adi_encoder_reset", <<enc>>, adi_encoder_reset(Ctx, enc))

do_encoder_shutdown(enc) ==
  Call("adi_encoder_shutdown", <<enc>>, adi_encoder_shutdown(Ctx, enc))

do_ultrasonic_init(port_echo, port_ping) ==
  Call("adi_ultrasonic_init", <<port_echo, port_ping>>,
       adi_ultrasonic_init(Ctx, port_echo, port_ping))

do_ultrasonic_get(ult) ==
  LET ok == ~validate_type(Ctx, ult, E_ADI_LEGACY_ULTRASONIC).returned IN
  \E raw \in Choice(CountRaw, ok, 0) :
    Call("adi_ultrasonic_get", <<ult>>, adi_ultrasonic_get(Ctx, ult, raw))

do_ultrasonic_shutdown(ult) ==
  Call("adi_ultrasonic_shutdown", <<ult>>, adi_ultrasonic_shutdown(Ctx, ult))

\* ------------------------------------------------------------- specifications
\* The hardware's port configuration is not set by this file: the program
\* finds the ports unconfigured or as earlier configuration calls left them.
ConfigOf(t) == [p \in PortIndex |-> t[p + 1]]

InitConfigs ==
  { [p \in PortIndex |-> E_ADI_TYPE_UNDEFINED],
    ConfigOf(<<E_ADI_ANALOG_IN, E_ADI_LEGACY_SERVO, E_ADI_LEGACY_ENCODER,
               E_ADI_DIGITAL_OUT, E_ADI_LEGACY_LINE_SENSOR, E_ADI_SMART_BUTTON,
               E_ADI_LEGACY_ULTRASONIC, E_ADI_LEGACY_PWM>>),
    ConfigOf(<<E_ADI_LEGACY_ENCODER, E_ADI_LEGACY_BUTTON, E_ADI_LEGACY_ULTRASONIC,
               E_ADI_SMART_POT, E_ADI_LEGACY_POT, E_ADI_LEGACY_LIGHT_SENSOR,
               E_ADI_LEGACY_ACCELEROMETER, E_ADI_ANALOG_OUT>>) }

\* More initial configurations, for the specification of single calls: each
\* pairs the two ports the calls address with types of different families.
MoreInitConfigs ==
  { ConfigOf(<<E_ADI_LEGACY_ULTRASONIC, E_ADI_DIGITAL_OUT, E_ADI_TYPE_UNDEFINED,
               E_ADI_TYPE_UNDEFINED, E_ADI_TYPE_UNDEFINED, E_ADI_TYPE_UNDEFINED,
               E_ADI_TYPE_UNDEFINED, E_ADI_TYPE_UNDEFINED>>),
    ConfigOf(<<E_ADI_LEGACY_PWM, E_ADI_DIGITAL_IN, E_ADI_LEGACY_ENCODER,
               E_ADI_TYPE_UNDEFINED, E_ADI_TYPE_UNDEFINED, E_ADI_TYPE_UNDEFINED,
               E_ADI_TYPE_UNDEFINED, E_ADI_TYPE_UNDEFINED>>),
    ConfigOf(<<E_ADI_ANALOG_OUT, E_ADI_LEGACY_POT, E_ADI_TYPE_UNDEFINED,
               E_ADI_TYPE_UNDEFINED, E_ADI_TYPE_UNDEFINED, E_ADI_TYPE_UNDEFINED,
               E_ADI_TYPE_UNDEFINED, E_ADI_TYPE_UNDEFINED>>),
    ConfigOf(<<E_ADI_SMART_BUTTON, E_ADI_LEGACY_ACCELEROMETER, E_ADI_TYPE_UNDEFINED,
               E_ADI_TYPE_UNDEFINED, E_ADI_TYPE_UNDEFINED, E_ADI_TYPE_UNDEFINED,
               E_ADI_TYPE_UNDEFINED, E_ADI_TYPE_UNDEFINED>>) }

\* The program starts with the auxiliary arrays zeroed (they are static
\* storage) and errno clear.
InitFrom(configs) ==
  /\ adi_config \in configs
  /\ analog_registry = [p \in PortIndex |-> [calib |-> 0, mult |-> 0, value |-> 0, type |-> 0]]
  /\ encoder_reversed = [s \in TwoWireSlot |-> FALSE]
  /\ errno = 0
  /\ last = [op |-> "none", args |-> <<>>, rtn |-> 0, hw |-> <<>>, aux |-> <<>>,
             errset |-> FALSE,
             pre |-> [cfg |-> adi_config, reg |-> analog_registry,
                      rev |-> encoder_reversed]]
  /\ calibrated = [p \in PortIndex |-> 0]
  /\ nops = 0
  /\ tasks = [t \in Tasks |-> IdleTask]
  /\ mutex = NoTask
  /\ access = [task |-> NoTask, op |-> "none", fn |-> "none", port |-> 0, cfg |-> 0,
               owner |-> NoTask]

Init == InitFrom(InitConfigs)

InitAll == InitFrom(InitConfigs \cup MoreInitConfigs)

\* Every operation, on the port identifiers PortIds.
ConfigCalls(ids, types) ==
  \/ \E port \in ids, type \in types : do_port_config_set(port, type)
  \/ \E port \in ids : do_port_config_get(port)

AnalogCalls ==
  \/ \E port \in CalibPorts : do_analog_calibrate(port)
  \/ \E port \in PortIds : do_analog_read(port)
  \/ \E port \in PortIds : do_analog_read_calibrated(port)
  \/ \E port \in PortIds : do_analog_read_calibrated_HR(port)

DigitalCalls ==
  \/ \E port \in PortIds : do_digital_read(port)
  \/ \E port \in PortIds, value \in BOOLEAN : do_digital_write(port, value)
  \/ \E port \in PortIds, mode \in Modes : do_pin_mode(port, mode)

MotorCalls ==
  \/ \E port \in PortIds, speed \in Speeds : do_motor_set(port, speed)
  \/ \E port \in PortIds : do_motor_get(port)
  \/ \E port \in PortIds : do_motor_stop(port)

TwoWireCalls ==
  \/ \E pair \in TwoWirePairs, reverse \in BOOLEAN :
       do_encoder_init(pair[1], pair[2], reverse)
  \/ \E enc \in HandleIds : do_encoder_get(enc)
  \/ \E enc \in HandleIds : do_encoder_reset(enc)
  \/ \E enc \in HandleIds : do_encoder_shutdown(enc)
  \/ \E pair \in TwoWirePairs : do_ultrasonic_init(pair[1], pair[2])
  \/ \E ult \in HandleIds : do_ultrasonic_get(ult)
  \/ \E ult \in HandleIds : do_ultrasonic_shutdown(ult)

\* Any one operation of the API, from any of the initial configurations.
Next ==
  /\ nops < MaxCalls
  /\ \/ ConfigCalls(PortIds, CfgTypes)
     \/ AnalogCalls
     \/ DigitalCalls
     \/ MotorCalls
     \/ TwoWireCalls

Spec == InitAll /\ [][Next]_vars

\* The addressing operations, over every identifier around the ranges.
NextAddr ==
  /\ nops < MaxOps
  /\ ConfigCalls(AllPortIds, AddrTypes)

SpecAddr == Init /\ [][NextAddr]_vars

\* The analog family, with the configuration calls that make a port analog
\* and take it away again.
NextAnalog ==
  /\ nops < MaxOps
  /\ \/ \E port \in PortIds, type \in AnalogTypes : do_port_config_set(port, type)
     \/ AnalogCalls

SpecAnalog == Init /\ [][NextAnalog]_vars

\* The digital operations and the legacy motor.
NextMotor ==
  /\ nops < MaxOps
  /\ \/ \E port \in PortIds, type \in MotorTypes : do_port_config_set(port, type)
     \/ DigitalCalls
     \/ MotorCalls

SpecMotor == Init /\ [][NextMotor]_vars

\* The two-wire devices.
NextTwoWire ==
  /\ nops < MaxOps
  /\ \/ \E port \in PortIds, type \in TwoWireTypes : do_port_config_set(port, type)
     \/ TwoWireCalls

SpecTwoWire == Init /\ [][NextTwoWire]_vars

\* The tasks, each making one call, from the configurations in which port 1
\* is of one of the types the calls are for.
TaskInitConfigs ==
  { [p \in PortIndex |-> IF p = 0 THEN t ELSE E_ADI_TYPE_UNDEFINED] :
      t \in {E_ADI_ANALOG_IN, E_ADI_DIGITAL_OUT, E_ADI_LEGACY_PWM, E_ADI_LEGACY_ENCODER} }

InitTasks == InitFrom(TaskInitConfigs)

\* One statement of one task.
TaskStep(t) ==
  \/ \E call \in TaskCalls(t) : T_call(t, call)
  \/ T_reject(t)
  \/ T_claim(t)
  \/ \E raw \in TaskRaw : T_transact(t, raw)
  \/ \E ub \in StoreVictimsOfCalib : T_delay(t, ub)

NextTasks == \E t \in Tasks : TaskStep(t)

SpecTasks == InitTasks /\ [][NextTasks]_vars

\* The scheduler runs every task that can take a step.
SpecTasksFair == SpecTasks /\ \A t \in Tasks : WF_vars(TaskStep(t))

\* ================================================================== claims
\* The port a caller means by an identifier: the n-th port for the number n,
\* for the n-th lower-case letter and for the n-th upper-case letter.
ValidId(id) ==
  id \in (1 .. 8) \cup (CH_a .. CH_h) \cup (CH_A .. CH_H)

IndexOf(id) ==
  IF id \in CH_a .. CH_h THEN id - CH_a
  ELSE IF id \in CH_A .. CH_H THEN id - CH_A
  ELSE id - 1

RECURSIVE CountFrom(_, _, _)
CountFrom(hw, fns, i) ==
  IF i > Len(hw) THEN 0
  ELSE (IF hw[i].fn \in fns THEN hw[i].n ELSE 0) + CountFrom(hw, fns, i + 1)

\* The number of calls of the SDK functions fns in the trace hw.
HwCount(hw, fns) == CountFrom(hw, fns, 1)

\* The entries of the trace hw for the SDK function fn.
HwOf(hw, fn) == SelectSeq(hw, LAMBDA e : e.fn = fn)

AuxStores(aux) == SelectSeq(aux, LAMBDA e : e.wr)

\* C1: after adi_port_config_set(p, t) returns 1, an adi_port_config_get(p)
\* made at once returns t, and every other port has the configuration it had
\* before the call; a get returns the stored configuration and changes none.
C1_ReadAfterWrite ==
  /\ (last.op = "adi_port_config_set" /\ last.rtn = 1) =>
       /\ ValidId(last.args[1])
       /\ adi_port_config_get(Ctx, last.args[1]).rtn = last.args[2]
       /\ \A q \in PortIndex \ {IndexOf(last.args[1])} :
            adi_config[q] = last.pre.cfg[q]
  /\ (last.op = "adi_port_config_get" /\ ValidId(last.args[1])) =>
       /\ last.rtn = last.pre.cfg[IndexOf(last.args[1])]
       /\ adi_config = last.pre.cfg

C1_Witness ==
  /\ last.op = "adi_port_config_set"
  /\ last.args = <<CH_a + 2, E_ADI_LEGACY_ENCODER>>
  /\ last.rtn = 1
  /\ last.pre.cfg[2] # E_ADI_LEGACY_ENCODER
  /\ adi_config[2] = E_ADI_LEGACY_ENCODER

\* C2: the number n in 1..8, the n-th lower-case letter and the n-th
\* upper-case letter all address index n-1 (the index every SDK call of the
\* operation is given); any other identifier makes the operation return
\* PROS_ERR with errno set to EINVAL and no SDK call made.
C2_PortAddressing ==
  last.op \in {"adi_port_config_set", "adi_port_config_get"} =>
    IF ValidId(last.args[1])
    THEN /\ Len(last.hw) = 1
         /\ last.hw[1].port = IndexOf(last.args[1])
         /\ ~last.errset
    ELSE /\ last.rtn = PROS_ERR
         /\ last.errset
         /\ errno = EINVAL
         /\ last.hw = <<>>
         /\ adi_config = last.pre.cfg

C2_Witness ==
  /\ last.op = "adi_port_config_get"
  /\ last.args = <<CH_H>>
  /\ last.hw = <<[fn |-> "PortConfigGet", port |-> 7, val |-> last.rtn, n |-> 1]>>

\* The operations that read or write a port's value, and the configurations
\* each accepts.
AnalogConfigs ==
  {E_ADI_ANALOG_IN, E_ADI_LEGACY_POT, E_ADI_LEGACY_LINE_SENSOR,
   E_ADI_LEGACY_LIGHT_SENSOR, E_ADI_LEGACY_ACCELEROMETER, E_ADI_SMART_POT}

Allowed(op) ==
  IF op \in {"adi_analog_calibrate", "adi_analog_read", "adi_analog_read_calibrated",
             "adi_analog_read_calibrated_HR"}
    THEN AnalogConfigs
  ELSE IF op = "adi_digital_read"
    THEN {E_ADI_DIGITAL_IN, E_ADI_LEGACY_BUTTON, E_ADI_SMART_BUTTON}
  ELSE IF op = "adi_digital_write" THEN {E_ADI_DIGITAL_OUT}
  ELSE IF op \in {"adi_motor_set", "adi_motor_get", "adi_motor_stop"}
    THEN {E_ADI_LEGACY_PWM, E_ADI_LEGACY_SERVO}
  ELSE IF op \in {"adi_encoder_get", "adi_encoder_reset", "adi_encoder_shutdown"}
    THEN {E_ADI_LEGACY_ENCODER}
  ELSE IF op \in {"adi_ultrasonic_get", "adi_ultrasonic_shutdown"}
    THEN {E_ADI_LEGACY_ULTRASONIC}
  ELSE {}

ValueOps ==
  {"adi_analog_calibrate", "adi_analog_read", "adi_analog_read_calibrated",
   "adi_analog_read_calibrated_HR", "adi_digital_read", "adi_digital_write",
   "adi_motor_set", "adi_motor_get", "adi_motor_stop", "adi_encoder_get",
   "adi_encoder_reset", "adi_encoder_shutdown", "adi_ultrasonic_get",
   "adi_ultrasonic_shutdown"}

\* The call in last is a value operation on a port whose configuration the
\* operation does not accept.
Mismatch ==
  /\ last.op \in ValueOps
  /\ ValidId(last.args[1])
  /\ last.pre.cfg[IndexOf(last.args[1])] \notin Allowed(last.op)

\* C3: a value operation on a port whose configuration is not one the
\* operation accepts returns PROS_ERR, makes no value-get, value-set or
\* configuration-set call to the SDK, and changes no port configuration and
\* no auxiliary state.
C3_MismatchNoSideEffect ==
  Mismatch =>
    /\ last.rtn = PROS_ERR
    /\ HwCount(last.hw, {"ValueGet", "ValueSet", "PortConfigSet"}) = 0
    /\ AuxStores(last.aux) = <<>>
    /\ adi_config = last.pre.cfg
    /\ analog_registry = last.pre.reg
    /\ encoder_reversed = last.pre.rev

C3_Witness ==
  /\ Mismatch
  /\ last.op = "adi_digital_write"
  /\ last.pre.cfg[IndexOf(last.args[1])] = E_ADI_ANALOG_IN
  /\ last.rtn = PROS_ERR

\* ---------------------------------------------------------- two-wire devices
\* The pair of an init call and its lower identifier.
PairTop == last.args[1]

PairBottom == last.args[2]

Canonical == Min(PairTop, PairBottom)

\* C4 (as claimed, for every pair): after a successful adi_encoder_init an
\* adi_encoder_get on the handle it returned reads the value of the pair's
\* port and returns it negated when reverse is set, unchanged when it is not.
C4_Claimed ==
  (last.op = "adi_encoder_init" /\ last.rtn # PROS_ERR) =>
    \A raw \in CountRaw, ubval \in BOOLEAN :
      LET g == adi_encoder_get(Ctx, last.rtn, raw, ubval) IN
      /\ HwOf(g.hw, "ValueGet") =
           <<[fn |-> "ValueGet", port |-> IndexOf(Canonical), val |-> raw, n |-> 1]>>
      /\ g.rtn = IF last.args[3] = 1 THEN -raw ELSE raw

\* The two-wire rules as the specification states them (the index of the
\* lower port must be odd) and as amended (it must be even: the lower port
\* is port 1, 3, 5 or 7, 'a', 'c', 'e' or 'g').
RejectedAsClaimed(a, b) ==
  \/ Abs(a - b) > 1
  \/ a = b
  \/ IndexOf(Min(a, b)) % 2 = 0

Rejected(a, b) ==
  \/ Abs(a - b) > 1
  \/ a = b
  \/ IndexOf(Min(a, b)) % 2 = 1

C6_UltrasonicInit ==
  last.op = "adi_ultrasonic_init" =>
    /\ \A reverse \in BOOLEAN, ub \in StoreVictimsOfReversed :
         adi_encoder_init(Ctx, PairTop, PairBottom, reverse, ub).rtn = PROS_ERR
           => last.rtn = PROS_ERR
    /\ Rejected(PairTop, PairBottom) => last.rtn = PROS_ERR
    /\ PairTop # Canonical => last.rtn = PROS_ERR
    /\ IF last.rtn # PROS_ERR
       THEN /\ ValidId(Canonical)
            /\ adi_config =
                 [last.pre.cfg EXCEPT ![IndexOf(Canonical)] = E_ADI_LEGACY_ULTRASONIC]
       ELSE adi_config = last.pre.cfg

C6_Witness ==
  /\ last.op = "adi_ultrasonic_init"
  /\ PairTop = CH_a /\ PairBottom = CH_a + 1
  /\ last.rtn # PROS_ERR
  /\ last.pre.cfg[0] # E_ADI_LEGACY_ULTRASONIC
  /\ adi_config[0] = E_ADI_LEGACY_ULTRASONIC

\* C7 (as claimed): the handle a successful adi_encoder_init or
\* adi_ultrasonic_init returns addresses the lower port of the pair.
C7_Claimed ==
  (last.op \in {"adi_encoder_init", "adi_ultrasonic_init"} /\ last.rtn # PROS_ERR) =>
    /\ ValidId(last.rtn)
    /\ IndexOf(last.rtn) = IndexOf(Canonical)

\* ---------------------------------------------------------------- legacy motor
Max(a, b) == IF a > b THEN a ELSE b

\* C8: adi_motor_set on a port configured as legacy PWM or legacy servo makes
\* exactly one value-set call, for that port, with the speed brought into
\* [-128, 127].
C8_MotorSetClamps ==
  (/\ last.op = "adi_motor_set"
   /\ ValidId(last.args[1])
   /\ last.pre.cfg[IndexOf(last.args[1])] \in {E_ADI_LEGACY_PWM, E_ADI_LEGACY_SERVO}) =>
    /\ HwOf(last.hw, "ValueSet") =
         <<[fn |-> "ValueSet", port |-> IndexOf(last.args[1]),
            val |-> Max(-128, Min(127, last.args[2])), n |-> 1]>>
    /\ last.args[2] = 200 => last.hw[Len(last.hw)].val = 127
    /\ last.args[2] = -200 => last.hw[Len(last.hw)].val = -128

C8_Witness ==
  /\ last.op = "adi_motor_set"
  /\ last.args = <<2, -200>>
  /\ last.pre.cfg[1] = E_ADI_LEGACY_SERVO
  /\ HwOf(last.hw, "ValueSet") = <<[fn |-> "ValueSet", port |-> 1, val |-> -128, n |-> 1]>>

\* ----------------------------------------------------------------- analog family
\* The call in last is an analog operation on a port with an analog
\* configuration.
AnalogCall(op) ==
  /\ last.op = op
  /\ ValidId(last.args[1])
  /\ last.pre.cfg[IndexOf(last.args[1])] \in AnalogConfigs

\* The raw values the call in last read.
RawReads == HwOf(last.hw, "ValueGet")

\* C9 (as claimed): adi_analog_calibrate on an analog port whose 512 raw
\* reads all return V stores 16*V as the calibration of that port and
\* returns V.
C9_Claimed ==
  (/\ AnalogCall("adi_analog_calibrate")
   /\ Len(RawReads) = 1
   /\ RawReads[1].n = CALIBRATE_SAMPLES) =>
    /\ analog_registry[IndexOf(last.args[1])].calib = 16 * RawReads[1].val
    /\ last.rtn = RawReads[1].val

\* C10 (as claimed): on an analog port adi_analog_read_calibrated returns
\* raw - (calibration >> 4) and adi_analog_read_calibrated_HR returns
\* (raw << 4) - calibration, where calibration is what the most recent
\* adi_analog_calibrate of that port computed (0 if there was none); and a
\* calibration changes the stored calibration of no other port.
C10_Claimed ==
  /\ AnalogCall("adi_analog_read_calibrated") =>
       last.rtn = RawReads[1].val - (calibrated[IndexOf(last.args[1])] \div 16)
  /\ AnalogCall("adi_analog_read_calibrated_HR") =>
       last.rtn = (RawReads[1].val * 16) - calibrated[IndexOf(last.args[1])]
  /\ AnalogCall("adi_analog_calibrate") =>
       \A q \in PortIndex \ {IndexOf(last.args[1])} :
         analog_registry[q] = last.pre.reg[q]

\* ------------------------------------------------------------ error reporting
\* C11 (as claimed): a call that returns PROS_ERR has set errno to EINVAL.
C11_Claimed ==
  (last.op # "none" /\ last.rtn = PROS_ERR) =>
    /\ last.errset
    /\ errno = EINVAL

\* The identifiers the call in last was given as ports.
PortArgs ==
  IF last.op \in {"adi_encoder_init", "adi_ultrasonic_init"}
  THEN {last.args[1], last.args[2]}
  ELSE IF last.op = "none" THEN {} ELSE {last.args[1]}

\* C12 (as claimed): a call given an identifier that is no port returns
\* PROS_ERR.
C12_Claimed ==
  (\E id \in PortArgs : ~ValidId(id)) => last.rtn = PROS_ERR

\* The configuration adi_pin_mode gives a port for each mode.
ModeConfig(mode) ==
  IF mode = INPUT THEN E_ADI_DIGITAL_IN
  ELSE IF mode = OUTPUT THEN E_ADI_DIGITAL_OUT
  ELSE IF mode = INPUT_ANALOG THEN E_ADI_ANALOG_IN
  ELSE E_ADI_ANALOG_OUT

\* C13: adi_pin_mode on a valid port with one of the four modes gives that
\* port the configuration of the mode, changes no other port and returns 1;
\* with any other mode it returns PROS_ERR with errno EINVAL, makes no SDK
\* call and changes no configuration.
C13_PinMode ==
  last.op = "adi_pin_mode" =>
    IF last.args[2] \in {INPUT, OUTPUT, INPUT_ANALOG, OUTPUT_ANALOG}
    THEN ValidId(last.args[1]) =>
           /\ adi_config =
                [last.pre.cfg EXCEPT ![IndexOf(last.args[1])] = ModeConfig(last.args[2])]
           /\ last.rtn = 1
           /\ last.hw = <<[fn |-> "PortConfigSet", port |-> IndexOf(last.args[1]),
                           val |-> ModeConfig(last.args[2]), n |-> 1]>>
    ELSE /\ last.rtn = PROS_ERR
         /\ last.errset /\ errno = EINVAL
         /\ last.hw = <<>>
         /\ adi_config = last.pre.cfg

C13_Witness ==
  /\ last.op = "adi_pin_mode"
  /\ last.args = <<CH_A + 1, OUTPUT>>
  /\ last.rtn = 1
  /\ last.pre.cfg[1] # E_ADI_DIGITAL_OUT
  /\ adi_config[1] = E_ADI_DIGITAL_OUT

\* ------------------------------------------------------------ device lifetime
\* The context c is one a handle operation ended in with PROS_ERR, having
\* touched neither a value nor a configuration.
FailedUntouched(c) ==
  /\ c.rtn = PROS_ERR
  /\ c.cfg = adi_config
  /\ HwCount(c.hw, {"ValueGet", "ValueSet", "PortConfigSet"}) = 0

\* C14: a successful adi_encoder_shutdown (adi_ultrasonic_shutdown) leaves
\* the port of its handle E_ADI_TYPE_UNDEFINED and every other port as it
\* was; and in every state, for as long as the port of a handle is not a
\* legacy encoder (ultrasonic sensor), whether after a shutdown or after an
\* adi_port_config_set to another type, adi_encoder_get, adi_encoder_reset
\* and adi_encoder_shutdown (adi_ultrasonic_get and adi_ultrasonic_shutdown)
\* on it return PROS_ERR without touching the hardware's values or
\* configuration.
C14_ShutdownDisables ==
  /\ (last.op \in {"adi_encoder_shutdown", "adi_ultrasonic_shutdown"}
      /\ last.rtn # PROS_ERR) =>
       /\ ValidId(last.args[1])
       /\ last.pre.cfg[IndexOf(last.args[1])] \in Allowed(last.op)
       /\ adi_config =
            [last.pre.cfg EXCEPT ![IndexOf(last.args[1])] = E_ADI_TYPE_UNDEFINED]
  /\ \A h \in HandleIds :
       /\ (ValidId(h) /\ adi_config[IndexOf(h)] # E_ADI_LEGACY_ENCODER) =>
            /\ \A raw \in CountRaw, ubval \in BOOLEAN :
                 FailedUntouched(adi_encoder_get(Ctx, h, raw, ubval))
            /\ FailedUntouched(adi_encoder_reset(Ctx, h))
            /\ FailedUntouched(adi_encoder_shutdown(Ctx, h))
       /\ (ValidId(h) /\ adi_config[IndexOf(h)] # E_ADI_LEGACY_ULTRASONIC) =>
            /\ \A raw \in CountRaw : FailedUntouched(adi_ultrasonic_get(Ctx, h, raw))
            /\ FailedUntouched(adi_ultrasonic_shutdown(Ctx, h))

C14_Witness ==
  /\ last.op = "adi_encoder_shutdown"
  /\ last.args = <<3>>
  /\ last.rtn = 1
  /\ last.pre.cfg[2] = E_ADI_LEGACY_ENCODER
  /\ adi_config[2] = E_ADI_TYPE_UNDEFINED
  /\ adi_encoder_get(Ctx, 3, 360, FALSE).rtn = PROS_ERR

\* ------------------------------------------------------------ auxiliary state
\* The identifier whose port the auxiliary accesses of the call in last are
\* for: the lower port of the pair of an init call, else the port or handle.
AuxPort ==
  IF last.op = "adi_encoder_init" THEN Canonical ELSE last.args[1]

\* C19 (as claimed): every access of analog_registry a call makes is at an
\* index in 0..7, every access of encoder_reversed at a slot in 0..3 that is
\* half the index of the lower port, and a call that returns PROS_ERR has
\* stored no reversal flag.
C19_Claimed ==
  \A i \in 1 .. Len(last.aux) :
    LET e == last.aux[i] IN
    /\ e.arr = "analog_registry" => e.idx \in PortIndex
    /\ e.arr = "encoder_reversed" =>
         /\ e.idx \in TwoWireSlot
         /\ e.idx = IndexOf(AuxPort) \div 2
         /\ (e.wr /\ last.op = "adi_encoder_init") => last.rtn # PROS_ERR

\* ------------------------------------------------------ numbers and letters
\* The number that names the port of an identifier.
NumberForm(id) == IF ValidId(id) THEN IndexOf(id) + 1 ELSE id

\* The context the call in last started in.
PreCtx ==
  [Ctx EXCEPT !.cfg = last.pre.cfg, !.reg = last.pre.reg, !.rev = last.pre.rev]

\* The contexts the call in last ends in when every port it is given is
\* written as a number, the hardware returning the same raw values.
AsNumbers ==
  LET a == last.args IN
  IF last.op = "adi_port_config_set"
    THEN {adi_port_config_set(PreCtx, NumberForm(a[1]), a[2])}
  ELSE IF last.op = "adi_pin_mode"
    THEN {adi_pin_mode(PreCtx, NumberForm(a[1]), a[2])}
  ELSE IF last.op = "adi_digital_write"
    THEN {adi_digital_write(PreCtx, NumberForm(a[1]), a[2] = 1)}
  ELSE IF last.op = "adi_motor_set"
    THEN {adi_motor_set(PreCtx, NumberForm(a[1]), a[2])}
  ELSE IF last.op = "adi_encoder_init"
    THEN {adi_encoder_init(PreCtx, NumberForm(a[1]), NumberForm(a[2]), a[3] = 1, -1)}
  ELSE IF last.op = "adi_ultrasonic_init"
    THEN {adi_ultrasonic_init(PreCtx, NumberForm(a[1]), NumberForm(a[2]))}
  ELSE IF last.op = "adi_analog_calibrate" /\ Len(RawReads) = 1
    THEN adi_analog_calibrate(PreCtx, NumberForm(a[1]), RawReads[1].val,
                              RawReads[1].val, {-1})
  ELSE {}

\* C20 (as claimed): a call given the letter of a port ends with the result,
\* the port configurations, the calibrations and the reversal flags that the
\* same call given the number of the port ends with.
C20_Claimed ==
  (last.op # "none" /\ \A id \in PortArgs : ValidId(id)) =>
    \A r \in AsNumbers :
      /\ last.rtn = r.rtn
      /\ adi_config = r.cfg
      /\ analog_registry = r.reg
      /\ encoder_reversed = r.rev

\* ---------------------------------------------------------------------- tasks
\* C15: every SDK call is made by a task that has claimed the interface; a
\* task has the interface exactly while it is between claim_port and
\* return_port of one facade function, so at most one task is there at a
\* time; every claim is followed by exactly one SDK call; and a task that is
\* idle, waiting, suspended or back from its call does not have it.
C15_MutualExclusion ==
  /\ access.task # NoTask => access.owner = access.task
  /\ \A t \in Tasks :
       /\ tasks[t].pc = "sdk" <=> mutex = t
       /\ tasks[t].claims = tasks[t].calls + (IF tasks[t].pc = "sdk" THEN 1 ELSE 0)
       /\ tasks[t].pc = "done" => mutex # t
  /\ \A t, u \in Tasks : (tasks[t].pc = "sdk" /\ tasks[u].pc = "sdk") => t = u

C15_Witness ==
  /\ mutex = "t1"
  /\ tasks["t1"].pc = "sdk"
  /\ tasks["t2"].pc = "facade"
  /\ ~port_out_of_range(transform_adi_port(tasks["t2"].port))

Calibrating(t) == tasks[t].op = "adi_analog_calibrate"

\* The counts of a calibration: no read and no store before the validation
\* has passed, never more than 512 reads, all of the calibrated port, the
\* store only after the 512th read and only once; a call that has returned
\* has either failed its validation, read nothing and stored nothing, or
\* made 512 reads and one store.
CalibrateCounts(t) ==
  LET k == tasks[t] IN
  Calibrating(t) =>
    /\ k.reads <= CALIBRATE_SAMPLES
    /\ k.stores <= 1
    /\ k.stores = 1 => (k.pc = "done" /\ k.reads = CALIBRATE_SAMPLES)
    /\ k.phase = "validate" => (k.reads = 0 /\ k.stores = 0)
    /\ k.stores = 0 =>
         /\ analog_registry = [p \in PortIndex |-> [calib |-> 0, mult |-> 0, value |-> 0, type |-> 0]]
         /\ encoder_reversed = [s \in TwoWireSlot |-> FALSE]
    /\ (access.task = t /\ access.fn = "ValueGet") => access.port = IndexOf(k.port)
    /\ k.pc = "done" =>
         IF k.phase = "validate"
         THEN k.rtn = PROS_ERR /\ k.reads = 0 /\ k.stores = 0
         ELSE k.reads = CALIBRATE_SAMPLES /\ k.stores = 1

\* C16: adi_analog_calibrate makes no read and no store when its validation
\* fails, and exactly 512 reads of the port followed by one store when it
\* passes; and with every task scheduled, a calibration that has started
\* returns, whatever the other task does to the port meanwhile.
C16_CalibrateRuns ==
  /\ [](\A t \in Tasks : CalibrateCounts(t))
  /\ \A t \in Tasks : Calibrating(t) ~> (tasks[t].pc = "done")

\* A calibration that has returned after 512 reads, the last of them made
\* after the other task had taken the analog configuration from the port.
C16_Witness ==
  /\ Calibrating("t1")
  /\ tasks["t1"].pc = "done"
  /\ tasks["t1"].reads = CALIBRATE_SAMPLES
  /\ tasks["t1"].stores = 1
  /\ access.task = "t1" /\ access.fn = "ValueGet"
  /\ access.cfg = E_ADI_DIGITAL_IN

\* C17: a task suspended in the task_delay of adi_analog_calibrate does not
\* have the interface, and has claimed it once for the validation and once
\* for each sample read so far.
C17_NoClaimWhileSuspended ==
  \A t \in Tasks :
    tasks[t].pc = "delay" =>
      /\ mutex # t
      /\ tasks[t].reads = tasks[t].i + 1
      /\ tasks[t].claims = tasks[t].i + 2
      /\ tasks[t].calls = tasks[t].claims

\* The other task has claimed the interface, made its configuration call and
\* returned while the calibration was between two of its samples.
C17_Witness ==
  /\ Calibrating("t1")
  /\ tasks["t1"].pc = "delay"
  /\ tasks["t1"].i > 0 /\ tasks["t1"].i < CALIBRATE_SAMPLES - 1
  /\ mutex = NoTask
  /\ tasks["t2"].pc = "done" /\ tasks["t2"].op = "adi_port_config_set"
  /\ tasks["t2"].calls = 1
  /\ access.task = "t2"

\* C18 (as claimed): whenever a value read or write of a validated operation
\* reaches the SDK, the configuration of the port at that moment is one the
\* operation accepts.
C18_Claimed ==
  access.fn \in {"ValueGet", "ValueSet"} => access.cfg \in Allowed(access.op)

====
